---- MODULE Spec2Model ----
(***************************************************************************)
(* State-machine model of src/src/setComparisons.c (WiggleTools): the      *)
(* per-window T-test and Mann-Whitney U reducers over a two-group          *)
(* Multiset (the window synchronizer).                                     *)
(*                                                                         *)
(* Conventions                                                             *)
(*  - A genomic window is identified by its position in the synchronizer's *)
(*    stream (single chromosome, window i has start i); wi.start stands    *)
(*    for the triple (chrom, start, finish) copied at lines 72-74/213-215. *)
(*  - Track values are small integers, so the double arithmetic of the     *)
(*    code is exact; U1 is kept doubled (U1x2 = 2*U1) so that the halves   *)
(*    added by the tie correction stay integers.                           *)
(*  - A p-value is kept as the tuple of exact quantities the code feeds to *)
(*    gsl_cdf_tdist_Q / erf.                                               *)
(***************************************************************************)
EXTENDS Integers, Sequences, FiniteSets, TLC

\* ---------------------------------------------------------------- bounds
MaxLen == 2        \* windows in a stream of the protocol specification
MaxCount == 2      \* replicates per group in the single-window specification
MaxVal == 1        \* in-play values 0..MaxVal in the single-window specification
MaxGroups == 3     \* groups handed to a constructor

\* "multis[0]->count + multis[1]->count < 3" (line 148)
MinTotal == 3

VARIABLES
    mode,          \* which constructor the caller uses: "TTest" or "MWU"
    counts,        \* multi->multis[g]->count, one per group (multi->count = Len)
    wins,          \* the synchronizer's stream of windows (fixed input data)
    mpos,          \* the synchronizer's position; multi->done iff mpos > Len(wins)
    phase,         \* "new" (not constructed), "ready", "fatal" (exit(1))
    wi,            \* the WiggleIterator: done, start, value
    data,          \* MWUData constants set by the constructor
    rankingTable,  \* MWUData.rankingTable
    scan,          \* locals of the last Mann-Whitney scan (U1x2, prev, ties, ...)
    pc,            \* "idle", or "running": inside a pop that never returns
    emitted,       \* history: windows emitted since construction (until a seek)
    seeked,        \* history: a seek has happened
    lastPull       \* history: "none", or what the last pop or seek did:
                   \* "emitted" a window, or "nothing"

vars == <<mode, counts, wins, mpos, phase, wi, data, rankingTable, scan, pc,
          emitted, seeked, lastPull>>

\* ------------------------------------------------------------ input data
Abs(x) == IF x < 0 THEN -x ELSE x

\* One replicate of a window: in play with a value, or not in play.
Rep(V) == {[inplay |-> FALSE, value |-> 0]} \cup {[inplay |-> TRUE, value |-> v] : v \in V}

\* A window for groups with replicate counts c: per group, per replicate.
WindowsOf(c, V) == {<<a, b>> : a \in [1..c[1] -> Rep(V)], b \in [1..c[2] -> Rep(V)]}

\* Both reducers read a group's replicates as a multiset (sums; a table that is
\* sorted before it is read), so a stream lists each group's replicates in one
\* order: not in play first, then ascending values.
Ordered(a) ==
    \A i, j \in DOMAIN a :
        i < j => (IF a[i].inplay THEN a[i].value + 1 ELSE 0)
                 <= (IF a[j].inplay THEN a[j].value + 1 ELSE 0)

OrderedWindowsOf(c, V) == {w \in WindowsOf(c, V) : Ordered(w[1]) /\ Ordered(w[2])}

Streams(W, lens) == UNION {[1..k -> W] : k \in lens}

RECURSIVE SeqSum(_)
SeqSum(s) == IF s = <<>> THEN 0 ELSE Head(s) + SeqSum(Tail(s))

CountsUpTo(n) == UNION {[1..k -> 0..n] : k \in 1..MaxGroups}

\* ------------------------------------------- Multiset (window synchronizer)
multi_count == Len(counts)
multi_done(m) == m > Len(wins)
multis_count(g) == counts[g + 1]
multis_inplay(m, g, index) == wins[m][g + 1][index + 1].inplay
multi_values(m, g, index) == wins[m][g + 1][index + 1].value
\* a group is in play at a window iff one of its replicates is
multi_inplay(m, g) == \E index \in 0..(multis_count(g) - 1) : multis_inplay(m, g, index)

popMultiset(m) == IF multi_done(m) THEN m ELSE m + 1

\* reposition at the first window whose start is at or after S
seekMultiset(S) ==
    IF \E i \in 1..Len(wins) : i >= S
    THEN CHOOSE i \in 1..Len(wins) : i >= S /\ \A j \in 1..Len(wins) : j >= S => i <= j
    ELSE Len(wins) + 1

\* newWiggleIterator: a calloc'ed iterator
newWiggleIterator == [done |-> FALSE, start |-> 0, value |-> <<>>]

\* ------------------------------------------------- the skip loop (both)
\* while (!multi->inplay[0] || !multi->inplay[1]) { popMultiset(multi); if (multi->done) ... }
RECURSIVE SkipLoopFirstGroupOnly(_)
SkipLoopFirstGroupOnly(m) ==
    IF multi_done(m) THEN m
    ELSE IF multi_inplay(m, 0) THEN m
    ELSE SkipLoopFirstGroupOnly(popMultiset(m))

RECURSIVE SkipLoop(_)
SkipLoop(m) ==
    IF multi_done(m) THEN m
    ELSE IF multi_inplay(m, 0) /\ multi_inplay(m, 1) THEN m
    ELSE SkipLoop(popMultiset(m))

\* ------------------------------------------------------------- T-test
\* lines 81-98: sum and sum of squares over the replicates in play
RECURSIVE TSum(_, _, _)
TSum(m, g, n) ==
    IF n = 0 THEN 0
    ELSE TSum(m, g, n - 1)
         + (IF multis_inplay(m, g, n - 1) THEN multi_values(m, g, n - 1) ELSE 0)

RECURSIVE TSumSq(_, _, _)
TSumSq(m, g, n) ==
    IF n = 0 THEN 0
    ELSE TSumSq(m, g, n - 1)
         + (IF multis_inplay(m, g, n - 1)
            THEN multi_values(m, g, n - 1) * multi_values(m, g, n - 1) ELSE 0)

\* lines 83-84: count1 = multi->multis[0]->count (the replicate count)
TCount(g) == multis_count(g)

\* lines 107-112: var = sumSq/count - (sum/count)^2 = TVarNum / count^2
TVarNum(m, g) ==
    TCount(g) * TSumSq(m, g, multis_count(g))
    - TSum(m, g, multis_count(g)) * TSum(m, g, multis_count(g))

\* line 115: var1 + var2, over the common denominator count1^2 * count2^2,
\* with g1 the group the code reads as multis[0] and g2 as multis[1]
TVarSum(m, g1, g2) ==
    TVarNum(m, g1) * TCount(g2) * TCount(g2) + TVarNum(m, g2) * TCount(g1) * TCount(g1)

\* line 115: var1 + var2 == 0
TVarSumIsZero(m) == TVarSum(m, 0, 1) = 0

\* line 122: mean1 - mean2, times count1 * count2
TMeanDiff(m, g1, g2) ==
    TSum(m, g1, multis_count(g1)) * TCount(g2) - TSum(m, g2, multis_count(g2)) * TCount(g1)

\* lines 122, 129: var1 / count1 + var2 / count2, times count1^3 * count2^3
TVarOverCount(m, g1, g2) ==
    TVarNum(m, g1) * TCount(g2) * TCount(g2) * TCount(g2)
    + TVarNum(m, g2) * TCount(g1) * TCount(g1) * TCount(g1)

TStatisticSigned(m, g1, g2) ==
    <<TMeanDiff(m, g1, g2), TCount(g1) * TCount(g2), TVarOverCount(m, g1, g2)>>

\* lines 122-125: t = (mean1 - mean2) / sqrt(var1 / count1 + var2 / count2),
\* negated when negative; <<d, c, x>> stands for t = d * sqrt(c / x)
TStatistic(m, g1, g2) ==
    <<Abs(TMeanDiff(m, g1, g2)), TCount(g1) * TCount(g2), TVarOverCount(m, g1, g2)>>

\* line 129: the divisor count * count * (count - 1) of one group's term
TNuDivisor(g) == TCount(g) * TCount(g) * (TCount(g) - 1)

Pow6(c) == c * c * c * c * c * c

\* line 129: the degrees of freedom, as <<numerator, denominator>>. A term
\* var * var / 0 is 0.0 / 0 = NaN when var is zero and infinite otherwise;
\* NaN is <<0, 0>>, and a finite numerator over an infinite sum is <<0, 1>>.
TNu(m, g1, g2) ==
    IF \E g \in {g1, g2} : TNuDivisor(g) = 0 /\ TVarNum(m, g) = 0 THEN <<0, 0>>
    ELSE IF \E g \in {g1, g2} : TNuDivisor(g) = 0 THEN <<0, 1>>
    ELSE <<TVarOverCount(m, g1, g2) * TVarOverCount(m, g1, g2)
              * (TCount(g1) - 1) * (TCount(g2) - 1),
           TVarNum(m, g1) * TVarNum(m, g1) * Pow6(TCount(g2)) * (TCount(g2) - 1)
              + TVarNum(m, g2) * TVarNum(m, g2) * Pow6(TCount(g1)) * (TCount(g1) - 1)>>

\* lines 122-133: the p-value is a function of t and nu
TValue(m) == <<TStatistic(m, 0, 1), TNu(m, 0, 1)>>

\* lines 100-105: count1 == 0 || count2 == 0
TCountIsZero == TCount(0) = 0 \/ TCount(1) = 0

TVarZeroWithoutPop(p, w) ==
    [ret |-> "false", mpos |-> p, wi |-> [w EXCEPT !.start = p], emits |-> <<>>]

TVarZeroReturnsTrue(p, w) ==
    [ret |-> "true", mpos |-> popMultiset(p), wi |-> [w EXCEPT !.start = p], emits |-> <<p>>]

\* lines 114-118: the variance-degenerate window: popMultiset, return false
TVarZeroOutcome(p, w) ==
    [ret |-> "false", mpos |-> popMultiset(p), wi |-> [w EXCEPT !.start = p], emits |-> <<>>]

\* lines 120-137: value written, popMultiset, return true
TEmitOutcome(p, w) ==
    [ret |-> "true", mpos |-> popMultiset(p),
     wi |-> [w EXCEPT !.start = p, !.value = TValue(p)], emits |-> <<p>>]

\* TTestReductionPop2 (lines 52-138) from synchronizer position m and iterator w.
\* ret is "true", "false", or "nested": the count == 0 branch, which calls
\* popMultiset and pop(wi) and then returns without a value. emits lists the
\* window the call has emitted, if any.
TTestReductionPop2(m, w) ==
    IF w.done THEN [ret |-> "true", mpos |-> m, wi |-> w, emits |-> <<>>]
    ELSE IF multi_done(m)
    THEN [ret |-> "true", mpos |-> m, wi |-> [w EXCEPT !.done = TRUE], emits |-> <<>>]
    ELSE LET p == SkipLoop(m) IN
         IF multi_done(p)
         THEN [ret |-> "true", mpos |-> p, wi |-> [w EXCEPT !.done = TRUE], emits |-> <<>>]
         ELSE IF TCountIsZero
         THEN [ret |-> "nested", mpos |-> popMultiset(p),
               wi |-> [w EXCEPT !.start = p], emits |-> <<>>]
         ELSE IF TVarSumIsZero(p) THEN TVarZeroOutcome(p, w)
         ELSE TEmitOutcome(p, w)

\* ------------------------------------------------------- Mann-Whitney U
\* MWUReduction lines 301-309: the constants, in C int arithmetic
\* (mu_U = n1 * n2 / 2; sigma_U = sqrt(n1 * n2 * (n1 + n2 + 1) / 12), kept squared)
MWUData(n1, n2) ==
    [n1 |-> n1, n2 |-> n2, N |-> n1 + n2,
     normalApproximation |-> TRUE,
     mu_U |-> (n1 * n2) \div 2,
     sigmaSq_U |-> (n1 * n2 * (n1 + n2 + 1)) \div 12]

\* line 304: calloc(data->N, sizeof(ValueSetPair))
NewRankingTable(N) == [k \in 1..N |-> [value |-> 0, set |-> FALSE]]

FillTableKeepsStale(table, m, d) ==
    [k \in DOMAIN table |->
        IF k <= d.n1
        THEN [value |-> IF multis_inplay(m, 0, k - 1) THEN multi_values(m, 0, k - 1)
                        ELSE table[k].value,
              set |-> FALSE]
        ELSE [value |-> IF multis_inplay(m, 1, k - d.n1 - 1)
                        THEN multi_values(m, 1, k - d.n1 - 1) ELSE table[k].value,
              set |-> TRUE]]

\* lines 219-237: every entry of the table is rewritten from window m
FillTable(table, m, d) ==
    [k \in DOMAIN table |->
        IF k <= d.n1
        THEN [value |-> IF multis_inplay(m, 0, k - 1) THEN multi_values(m, 0, k - 1) ELSE 0,
              set |-> FALSE]
        ELSE [value |-> IF multis_inplay(m, 1, k - d.n1 - 1)
                        THEN multi_values(m, 1, k - d.n1 - 1) ELSE 0,
              set |-> TRUE]]

\* lines 183-191 and 239: qsort with compareValueSetPairs leaves the table
\* ascending by value, entries of equal value in any order.
MinValue(table, R) == CHOOSE v \in {table[i].value : i \in R} :
                          \A i \in R : v <= table[i].value

RECURSIVE SortedOrders(_, _)
SortedOrders(table, R) ==
    IF R = {} THEN {<<>>}
    ELSE LET first == {table[i] : i \in {j \in R : table[j].value = MinValue(table, R)}}
         IN UNION {{<<e>> \o rest :
                       rest \in SortedOrders(table, R \ {CHOOSE i \in R : table[i] = e})}
                   : e \in first}

qsort(table) == SortedOrders(table, DOMAIN table)

\* line 255: trailing B-entries of value v from (0-based) index2 on
RECURSIVE TrailingTies(_, _, _)
TrailingTies(table, index2, v) ==
    IF index2 < Len(table) /\ table[index2 + 1].value = v /\ table[index2 + 1].set
    THEN 1 + TrailingTies(table, index2 + 1, v)
    ELSE 0

\* lines 264-266: B-entries among the entries of value v from index2 on
RECURSIVE NextTies(_, _, _)
NextTies(table, index2, v) ==
    IF index2 < Len(table) /\ table[index2 + 1].value = v
    THEN (IF table[index2 + 1].set THEN 1 ELSE 0) + NextTies(table, index2 + 1, v)
    ELSE 0

\* lines 242-247: the scan's locals before the loop
ScanStart == [index |-> 0, prev |-> 0, ties |-> 0, previousTies |-> 0, U1x2 |-> 0]

\* lines 251-260: an A-entry met while ties != 0
TiedEntry(table, s) ==
    LET pt == s.previousTies + TrailingTies(table, s.index + 1, table[s.index + 1].value)
        u  == s.U1x2 + 2 * (s.index - s.prev) - pt + (s.ties - pt)
    IN  [index |-> s.index + 1, prev |-> s.prev + 1,
         ties |-> IF pt = s.ties THEN 0 ELSE s.ties,
         previousTies |-> IF pt = s.ties THEN 0 ELSE pt,
         U1x2 |-> u]

UntiedEntryNoPositional(table, s) ==
    LET t == s.ties + NextTies(table, s.index + 1, table[s.index + 1].value)
    IN  [index |-> s.index + 1, prev |-> s.prev + 1,
         ties |-> t, previousTies |-> s.previousTies,
         U1x2 |-> s.U1x2 + t]

\* lines 251, 261-269: an A-entry met while ties == 0
UntiedEntry(table, s) ==
    LET t == s.ties + NextTies(table, s.index + 1, table[s.index + 1].value)
    IN  [index |-> s.index + 1, prev |-> s.prev + 1,
         ties |-> t, previousTies |-> s.previousTies,
         U1x2 |-> s.U1x2 + 2 * (s.index - s.prev) + t]

ScanStepPositionalAtB(table, s) ==
    IF table[s.index + 1].set
    THEN [s EXCEPT !.index = s.index + 1, !.U1x2 = s.U1x2 + 2 * (s.index - s.prev)]
    ELSE IF s.ties # 0
         THEN [TiedEntry(table, s) EXCEPT !.U1x2 = @ - 2 * (s.index - s.prev)]
         ELSE [UntiedEntry(table, s) EXCEPT !.U1x2 = @ - 2 * (s.index - s.prev)]

\* lines 250-272: one iteration of the scan loop
ScanStep(table, s) ==
    IF table[s.index + 1].set THEN [s EXCEPT !.index = s.index + 1]
    ELSE IF s.ties # 0 THEN TiedEntry(table, s)
    ELSE UntiedEntry(table, s)

\* line 249: for (index = 0; index < data->N && prev < data->n1; index++)
RECURSIVE ScanLoop(_, _, _)
ScanLoop(table, d, s) ==
    IF s.index < d.N /\ s.prev < d.n1 THEN ScanLoop(table, d, ScanStep(table, s)) ELSE s

\* lines 275-280: the argument of erf, kept as <<2 * numerator, sigma_U^2>>
MWUValue(d, U1x2) ==
    IF U1x2 > 2 * d.mu_U
    THEN <<2 * d.mu_U - U1x2, d.sigmaSq_U>>
    ELSE <<U1x2 - 2 * d.mu_U, d.sigmaSq_U>>

\* lines 217-284: the evaluation of window p; one outcome per order qsort may leave
MWUEvaluate(p, w, table, d) ==
    {LET s == ScanLoop(sorted, d, ScanStart) IN
         [ret |-> "true", mpos |-> popMultiset(p),
          wi |-> [w EXCEPT !.start = p, !.value = MWUValue(d, s.U1x2)],
          emits |-> <<p>>, rankingTable |-> sorted, scan |-> s]
     : sorted \in qsort(FillTable(table, p, d))}

\* MWUReductionPop2 (lines 193-285): the set of possible outcomes
MWUReductionPop2(m, w, table, d, sc) ==
    IF w.done
    THEN {[ret |-> "true", mpos |-> m, wi |-> w, emits |-> <<>>,
           rankingTable |-> table, scan |-> sc]}
    ELSE IF multi_done(m)
    THEN {[ret |-> "true", mpos |-> m, wi |-> [w EXCEPT !.done = TRUE], emits |-> <<>>,
           rankingTable |-> table, scan |-> sc]}
    ELSE LET p == SkipLoop(m) IN
         IF multi_done(p)
         THEN {[ret |-> "true", mpos |-> p, wi |-> [w EXCEPT !.done = TRUE],
                emits |-> <<>>, rankingTable |-> table, scan |-> sc]}
         ELSE MWUEvaluate(p, w, table, d)

\* ------------------------------------------------- the retry loops
\* iterations after which a loop that has not returned never will: every
\* iteration that does not leave the loop must advance the synchronizer
Fuel == Len(wins) + 2

Diverged(m, w) == [ret |-> "diverged", mpos |-> m, wi |-> w, emits |-> <<>>]

Emitted(e, X) == {[x EXCEPT !.emits = e \o x.emits] : x \in X}

\* the loop and the call it makes, neither looking at wi->done
RECURSIVE TTestReductionPopIgnoringDone(_, _, _)
TTestReductionPopIgnoringDone(m, w, fuel) ==
    IF fuel = 0 THEN {Diverged(m, w)}
    ELSE LET r == TTestReductionPop2(m, [w EXCEPT !.done = FALSE])
             o == [r EXCEPT !.wi.done = w.done \/ r.wi.done]
         IN IF o.ret = "true" THEN {o}
            ELSE IF o.ret = "false" THEN TTestReductionPopIgnoringDone(o.mpos, o.wi, fuel - 1)
            ELSE UNION {IF x.ret = "diverged" THEN {x}
                        ELSE {x} \cup Emitted(x.emits,
                                 TTestReductionPopIgnoringDone(x.mpos, x.wi, fuel - 1))
                        : x \in TTestReductionPopIgnoringDone(o.mpos, o.wi, fuel - 1)}

\* TTestReductionPop (lines 140-144): while (true) if (wi->done || Pop2(wi)) break;
\* The set of states the loop can be left in. After the nested pop(wi) of line
\* 103 the call of line 104 returns an indeterminate value: the loop is left
\* or goes on.
RECURSIVE TTestReductionPop(_, _, _)
TTestReductionPop(m, w, fuel) ==
    IF w.done THEN {[ret |-> "true", mpos |-> m, wi |-> w, emits |-> <<>>]}
    ELSE IF fuel = 0 THEN {Diverged(m, w)}
    ELSE LET o == TTestReductionPop2(m, w) IN
         IF o.ret = "true" THEN {o}
         ELSE IF o.ret = "false" THEN TTestReductionPop(o.mpos, o.wi, fuel - 1)
         ELSE UNION {IF x.ret = "diverged" THEN {x}
                     ELSE {x} \cup Emitted(x.emits, TTestReductionPop(x.mpos, x.wi, fuel - 1))
                     : x \in TTestReductionPop(o.mpos, o.wi, fuel - 1)}

\* MWUReductionPop (lines 288-292)
RECURSIVE MWUReductionPop(_, _, _, _, _, _)
MWUReductionPop(m, w, table, d, sc, fuel) ==
    IF w.done
    THEN {[ret |-> "true", mpos |-> m, wi |-> w, emits |-> <<>>,
           rankingTable |-> table, scan |-> sc]}
    ELSE IF fuel = 0
    THEN {[ret |-> "diverged", mpos |-> m, wi |-> w, emits |-> <<>>,
           rankingTable |-> table, scan |-> sc]}
    ELSE UNION {IF o.ret = "true" THEN {o}
                ELSE MWUReductionPop(o.mpos, o.wi, o.rankingTable, d, o.scan, fuel - 1)
                : o \in MWUReductionPop2(m, w, table, d, sc)}

\* ------------------------------------------------------------ the caller
StreamVals == {1, 2}

TypeOK ==
    /\ mode \in {"TTest", "MWU"}
    /\ phase \in {"new", "ready", "fatal"}
    /\ pc \in {"idle", "running"}
    /\ mpos \in 1..(Len(wins) + 1)
    /\ wi.done \in BOOLEAN
    /\ wi.start \in 0..Len(wins)

InitState ==
    /\ mode \in {"TTest", "MWU"}
    /\ mpos = 1
    /\ phase = "new"
    /\ wi = newWiggleIterator
    /\ data = <<>>
    /\ rankingTable = <<>>
    /\ scan = ScanStart
    /\ pc = "idle"
    /\ emitted = <<>>
    /\ seeked = FALSE
    /\ lastPull = "none"

\* streams of up to MaxLen windows over the smallest group sizes both
\* constructors accept
Init ==
    /\ counts \in {c \in CountsUpTo(MinTotal) : SeqSum(c) <= MinTotal}
    /\ wins \in IF Len(counts) = 2 THEN Streams(OrderedWindowsOf(counts, StreamVals), 0..MaxLen) ELSE {<<>>}
    /\ InitState

\* one window, any contents over up to MaxCount replicates and values 0..MaxVal
InitWindow ==
    /\ counts \in CountsUpTo(MaxCount)
    /\ wins \in IF Len(counts) = 2 THEN Streams(WindowsOf(counts, 0..MaxVal), {1}) ELSE {<<>>}
    /\ InitState

\* one window of two non-empty groups of up to MaxCount + 1 replicates, every
\* replicate in play with a value in 0..MaxVal
InitTies ==
    /\ counts \in [1..2 -> 1..(MaxCount + 1)]
    /\ wins \in Streams({w \in OrderedWindowsOf(counts, 0..MaxVal) :
                            /\ \A k \in DOMAIN w[1] : w[1][k].inplay
                            /\ \A k \in DOMAIN w[2] : w[2][k].inplay}, {1})
    /\ InitState

TTestConfigErrorBelowTwo ==
    multi_count # 2 \/ multis_count(0) + multis_count(1) < MinTotal - 1

\* line 148: the condition under which TTestReduction exits
TTestConfigError ==
    multi_count # 2 \/ multis_count(0) + multis_count(1) < MinTotal

\* TTestReduction (lines 146-154)
TTestReduction ==
    /\ phase = "new" /\ mode = "TTest"
    /\ IF TTestConfigError
       THEN phase' = "fatal"
       ELSE phase' = "ready"
    /\ UNCHANGED <<mode, counts, wins, mpos, wi, data, rankingTable, scan, pc,
                   emitted, seeked, lastPull>>

\* line 296: the condition under which MWUReduction exits
MWUConfigError ==
    multi_count # 2 \/ multis_count(0) = 0 \/ multis_count(1) = 0

\* MWUReduction (lines 294-312)
MWUReduction ==
    /\ phase = "new" /\ mode = "MWU"
    /\ IF MWUConfigError
       THEN /\ phase' = "fatal"
            /\ UNCHANGED <<data, rankingTable>>
       ELSE /\ phase' = "ready"
            /\ data' = MWUData(multis_count(0), multis_count(1))
            /\ rankingTable' = NewRankingTable(multis_count(0) + multis_count(1))
    /\ UNCHANGED <<mode, counts, wins, mpos, wi, scan, pc, emitted, seeked, lastPull>>

\* the state a pop leaves behind
Returns(o) ==
    /\ mpos' = o.mpos
    /\ wi' = o.wi
    /\ pc' = IF o.ret = "diverged" THEN "running" ELSE "idle"
    /\ lastPull' = IF o.emits # <<>> THEN "emitted" ELSE "nothing"

\* pop(wi) on a T-test iterator
TTestPop ==
    /\ phase = "ready" /\ pc = "idle" /\ mode = "TTest"
    /\ \E o \in TTestReductionPop(mpos, wi, Fuel) :
          /\ Returns(o)
          /\ emitted' = IF seeked THEN emitted ELSE emitted \o o.emits
    /\ UNCHANGED <<mode, counts, wins, phase, data, rankingTable, scan, seeked>>

\* pop(wi) on a Mann-Whitney iterator
MWUPop ==
    /\ phase = "ready" /\ pc = "idle" /\ mode = "MWU"
    /\ \E o \in MWUReductionPop(mpos, wi, rankingTable, data, scan, Fuel) :
          /\ Returns(o)
          /\ rankingTable' = o.rankingTable
          /\ scan' = o.scan
          /\ emitted' = IF seeked THEN emitted ELSE emitted \o o.emits
    /\ UNCHANGED <<mode, counts, wins, phase, data, seeked>>

\* SetComparisonSeek (lines 42-46): seekMultiset, then pop(iter)
SetComparisonSeek(S) ==
    /\ phase = "ready" /\ pc = "idle" /\ mode = "TTest"
    /\ \E o \in TTestReductionPop(seekMultiset(S), wi, Fuel) : Returns(o)
    /\ seeked' = TRUE
    /\ emitted' = <<>>
    /\ UNCHANGED <<mode, counts, wins, phase, data, rankingTable, scan>>

\* MWUSeek (lines 177-181): seekMultiset, then pop(iter)
MWUSeek(S) ==
    /\ phase = "ready" /\ pc = "idle" /\ mode = "MWU"
    /\ \E o \in MWUReductionPop(seekMultiset(S), wi, rankingTable, data, scan, Fuel) :
          /\ Returns(o)
          /\ rankingTable' = o.rankingTable
          /\ scan' = o.scan
    /\ seeked' = TRUE
    /\ emitted' = <<>>
    /\ UNCHANGED <<mode, counts, wins, phase, data>>

\* coordinates a caller seeks to
SeekTargets == 1..(Len(wins) + 1)

Next ==
    \/ TTestReduction
    \/ MWUReduction
    \/ TTestPop
    \/ MWUPop
    \/ \E S \in SeekTargets : SetComparisonSeek(S)
    \/ \E S \in SeekTargets : MWUSeek(S)

Spec == Init /\ [][Next]_vars

SpecWindow == InitWindow /\ [][Next]_vars
SpecTies == InitTies /\ [][Next]_vars

\* ================================================================ claims
\* Reference notions, read off the input data alone.

\* group g (0 or 1) has a replicate in play at window i
GroupInPlay(i, g) == \E k \in DOMAIN wins[i][g + 1] : wins[i][g + 1][k].inplay

\* the in-play values of group g at window i
InPlayValues(i, g) ==
    {wins[i][g + 1][k].value : k \in {j \in DOMAIN wins[i][g + 1] : wins[i][g + 1][j].inplay}}

RECURSIVE RefSum(_, _)
RefSum(a, sq) ==
    IF a = <<>> THEN 0
    ELSE (IF Head(a).inplay THEN (IF sq THEN Head(a).value * Head(a).value ELSE Head(a).value)
          ELSE 0) + RefSum(Tail(a), sq)

\* numerator of var = sumSq/count - (sum/count)^2 over the denominator count^2,
\* count being the group's replicate count
RefVarNum(a) == Len(a) * RefSum(a, TRUE) - RefSum(a, FALSE) * RefSum(a, FALSE)

\* var1 + var2 = 0: both variances are non-negative
RefVarSumZero(i) == RefVarNum(wins[i][1]) = 0 /\ RefVarNum(wins[i][2]) = 0

\* window i qualifies for the reducer in use
Qualifies(i) ==
    /\ GroupInPlay(i, 0) /\ GroupInPlay(i, 1)
    /\ mode = "TTest" => ~RefVarSumZero(i)

\* the iterator exposes a window
Visible == phase = "ready" /\ pc = "idle" /\ ~wi.done /\ wi.start # 0

\* C1: every window a reducer exposes, after any pulls and seeks, has both
\* groups in play, and for the T-test a combined variance var1 + var2 that is
\* not zero.
C1_EmittedQualifies ==
    Visible =>
        /\ wi.start \in 1..Len(wins)
        /\ GroupInPlay(wi.start, 0) /\ GroupInPlay(wi.start, 1)
        /\ mode = "TTest" => ~RefVarSumZero(wi.start)

\* a window is exposed after a seek, behind windows that were skipped
C1_Witness ==
    /\ Visible /\ seeked /\ wi.start = 2
    /\ ~GroupInPlay(1, 1)

\* the qualifying windows from position i on, in stream order
RECURSIVE QualSeq(_)
QualSeq(i) ==
    IF i > Len(wins) THEN <<>>
    ELSE IF Qualifies(i) THEN <<i>> \o QualSeq(i + 1) ELSE QualSeq(i + 1)

IsPrefix(a, b) == Len(a) <= Len(b) /\ SubSeq(b, 1, Len(a)) = a

\* C2: pulled from construction on, a reducer emits the qualifying windows of
\* the stream, in stream order, each once; the window it exposes is the last
\* one emitted; it reports done only when all of them have been emitted.
C2_EmitsQualifyingInOrder ==
    (phase = "ready" /\ pc = "idle" /\ ~seeked) =>
        /\ IsPrefix(emitted, QualSeq(1))
        /\ wi.done => emitted = QualSeq(1)
        /\ (~wi.done /\ emitted # <<>>) => wi.start = emitted[Len(emitted)]
        /\ (~wi.done /\ emitted = <<>>) => wi.start = 0

\* done after a stream whose first window was skipped and whose last was emitted
C2_Witness ==
    /\ phase = "ready" /\ ~seeked /\ wi.done
    /\ Len(wins) = 2 /\ emitted = <<2>>
    /\ GroupInPlay(1, 0) /\ GroupInPlay(1, 1)

\* ---- the Mann-Whitney statistic
\* the value group g's replicate k enters the ranking with (0 when not in play)
RankedValue(i, g, k) == IF wins[i][g + 1][k].inplay THEN wins[i][g + 1][k].value ELSE 0

\* twice the reference rank sum of window i: 2 for every (A, B) pair with B's
\* value below A's, 1 for every pair of equal values
RefU1x2(i) ==
    LET pairs == (DOMAIN wins[i][1]) \X (DOMAIN wins[i][2])
    IN  2 * Cardinality({q \in pairs : RankedValue(i, 1, q[2]) < RankedValue(i, 0, q[1])})
        + Cardinality({q \in pairs : RankedValue(i, 1, q[2]) = RankedValue(i, 0, q[1])})

\* all N ranked values of window i are equal
AllRankedEqual(i) ==
    \A g, h \in {0, 1} : \A k \in DOMAIN wins[i][g + 1] : \A l \in DOMAIN wins[i][h + 1] :
        RankedValue(i, g, k) = RankedValue(i, h, l)

\* the Mann-Whitney reducer has evaluated window wi.start; scan holds the
\* locals its scan ended with
Evaluated == mode = "MWU" /\ phase = "ready" /\ pc = "idle" /\ wi.start # 0

\* C3: the U1 the scan computes for an evaluated window is the reference rank
\* sum: the (A, B) pairs with B below A, plus one half per tied pair.
C3_U1IsRankSum == Evaluated => scan.U1x2 = RefU1x2(wi.start)

\* C4: when all N values of the window are equal, U1 = n1 * n2 / 2, in
\* whatever order the sort leaves the entries.
C4_AllEqualHalf ==
    (Evaluated /\ AllRankedEqual(wi.start)) => scan.U1x2 = data.n1 * data.n2

\* C5: every order in which the sort may leave entries of equal value gives
\* the U1 of the order it did leave.
C5_TieOrderIndependent ==
    Evaluated =>
        \A sorted \in qsort(FillTable(rankingTable, wi.start, data)) :
            ScanLoop(sorted, data, ScanStart).U1x2 = scan.U1x2

\* C10: with n1 = n2 = 1 and distinct values, U1 is 0 when A's value is the
\* smaller one and 1 otherwise.
C10_SinglePair ==
    (/\ Evaluated /\ data.n1 = 1 /\ data.n2 = 1
     /\ RankedValue(wi.start, 0, 1) # RankedValue(wi.start, 1, 1)) =>
        scan.U1x2 = IF RankedValue(wi.start, 0, 1) < RankedValue(wi.start, 1, 1) THEN 0 ELSE 2

\* one A and one B replicate, A's value the larger: U1 = 1
C10_Witness ==
    /\ Evaluated /\ data.n1 = 1 /\ data.n2 = 1
    /\ RankedValue(wi.start, 0, 1) > RankedValue(wi.start, 1, 1)
    /\ scan.U1x2 = 2

\* ---- the T-test on constant windows
\* each group has a replicate in play and all in-play values of both groups
\* are one constant
ConstantInPlay(i) ==
    /\ GroupInPlay(i, 0) /\ GroupInPlay(i, 1)
    /\ Cardinality(InPlayValues(i, 0) \cup InPlayValues(i, 1)) = 1

\* C6: a window in which all in-play values of both groups are one and the
\* same constant is absent from the T-test output, whatever the in-play flags.
C6_ConstantWindowAbsent ==
    (mode = "TTest" /\ Visible) => ~ConstantInPlay(wi.start)

\* ---- seek
\* the first qualifying window at or after coordinate S, 0 when there is none
FirstQualifying(S) ==
    IF \E i \in 1..Len(wins) : i >= S /\ Qualifies(i)
    THEN CHOOSE i \in 1..Len(wins) :
             /\ i >= S /\ Qualifies(i)
             /\ \A j \in 1..Len(wins) : (j >= S /\ Qualifies(j)) => i <= j
    ELSE 0

\* the values a replay from the beginning can expose for window i
ReplayValues(i) ==
    IF mode = "TTest" THEN {TValue(i)}
    ELSE {MWUValue(data, ScanLoop(sorted, data, ScanStart).U1x2) :
              sorted \in qsort(FillTable(rankingTable, i, data))}

\* what the iterator exposes is the first qualifying window at or after S with
\* its replay value, or done when there is none
ExposesFirstQualifying(S) ==
    IF FirstQualifying(S) = 0 THEN wi.done
    ELSE /\ ~wi.done
         /\ wi.start = FirstQualifying(S)
         /\ wi.value \in ReplayValues(FirstQualifying(S))

\* C7: after seek(chrom, S, F) in any reachable state, the iterator exposes the
\* first qualifying window at or after S, with the value of a replay, or is
\* done when no such window exists.
C7_SeekExposesFirstQualifying ==
    [][\A S \in SeekTargets :
          (SetComparisonSeek(S) \/ MWUSeek(S)) => ExposesFirstQualifying(S)']_vars

\* ---- construction
\* C8: construction ends ready or fatal: fatal exactly for the configurations
\* the constructor rejects (T-test: not two groups, or n1 + n2 < 3;
\* Mann-Whitney: not two groups, or an empty group); a fatal construction
\* leaves no iterator that was ever pulled, a ready one has all its constants.
C8_ConstructionReadyOrFatal ==
    /\ phase \in {"new", "ready", "fatal"}
    /\ (phase # "new" /\ mode = "TTest") =>
          (phase = "fatal" <=> (Len(counts) # 2 \/ SeqSum(counts) < 3))
    /\ (phase # "new" /\ mode = "MWU") =>
          (phase = "fatal" <=> (Len(counts) # 2 \/ \E g \in DOMAIN counts : counts[g] = 0))
    /\ phase = "fatal" =>
          /\ wi = newWiggleIterator /\ mpos = 1 /\ pc = "idle"
          /\ emitted = <<>> /\ ~seeked
    /\ (phase = "ready" /\ mode = "MWU") =>
          /\ data.n1 = counts[1] /\ data.n2 = counts[2] /\ data.N = counts[1] + counts[2]
          /\ Len(rankingTable) = data.N

\* a T-test over two groups with two replicates in all has ended fatally
C8_Witness ==
    /\ phase = "fatal" /\ mode = "TTest"
    /\ Len(counts) = 2 /\ SeqSum(counts) = 2

\* ---- termination of a pull
\* C9: every pull returns, with done or with a qualifying window it has newly
\* emitted, the synchronizer left just behind that window; a window with an
\* empty group or zero variance on the way is skipped, never an error.
C9_PullTerminates ==
    phase = "ready" =>
        /\ pc = "idle"
        /\ lastPull = "none" => wi = newWiggleIterator
        /\ lastPull # "none" =>
              \/ wi.done
              \/ /\ lastPull = "emitted"
                 /\ wi.start \in 1..Len(wins)
                 /\ Qualifies(wi.start)
                 /\ mpos = wi.start + 1

\* a T-test pull has skipped a zero-variance first window and emitted the second
C9_Witness ==
    /\ mode = "TTest" /\ Visible /\ ~seeked
    /\ emitted = <<2>>
    /\ GroupInPlay(1, 0) /\ GroupInPlay(1, 1) /\ RefVarSumZero(1)

\* ---- the Mann-Whitney constants
\* the Mann-Whitney reducer has been constructed
MWUReady == mode = "MWU" /\ phase = "ready"

\* C11: for every accepted (n1, n2) the stored constants are the formulas
\* evaluated exactly: 2 * mu_U = n1 * n2 and
\* 12 * sigma_U^2 = n1 * n2 * (n1 + n2 + 1).
C11_ConstantsExact ==
    MWUReady =>
        /\ 2 * data.mu_U = counts[1] * counts[2]
        /\ 12 * data.sigmaSq_U = counts[1] * counts[2] * (counts[1] + counts[2] + 1)

\* ---- symmetry of the T-test
\* the emit-or-skip decision of TTestReductionPop2 on window i when group g1
\* is read as multis[0] and g2 as multis[1]
TEmits(i, g1, g2) ==
    /\ multi_inplay(i, g1) /\ multi_inplay(i, g2)
    /\ TCount(g1) # 0 /\ TCount(g2) # 0
    /\ TVarSum(i, g1, g2) # 0

\* C12: exchanging the two groups of a window leaves the emit-or-skip
\* decision, t and the degrees of freedom unchanged.
C12_SwapInvariant ==
    (mode = "TTest" /\ phase = "ready") =>
        /\ \A i \in 1..Len(wins) : TEmits(i, 0, 1) <=> TEmits(i, 1, 0)
        /\ \A k \in 1..Len(emitted) : TEmits(emitted[k], 1, 0)
        /\ Visible => wi.value = <<TStatistic(wi.start, 1, 0), TNu(wi.start, 1, 0)>>

\* a window whose first group has the smaller mean and a different variance
\* is visible
C12_Witness ==
    /\ mode = "TTest" /\ Visible
    /\ TMeanDiff(wi.start, 0, 1) < 0
    /\ TVarNum(wi.start, 0) # TVarNum(wi.start, 1)
    /\ TNuDivisor(0) # 0 /\ TNuDivisor(1) # 0

\* ---- the steps of the Mann-Whitney scan
\* the iterations of the scan loop (lines 249-273) from scan state s: the scan
\* state at the head of each iteration, the entry it examines, and runValue,
\* the value of the A-entry at which ties was last counted (lines 264-266)
RECURSIVE ScanTrace(_, _, _, _)
ScanTrace(table, d, s, rv) ==
    IF s.index < d.N /\ s.prev < d.n1
    THEN LET e == table[s.index + 1]
         IN <<[scan |-> s, entry |-> e, runValue |-> rv, next |-> ScanStep(table, s)]>>
            \o ScanTrace(table, d, ScanStep(table, s),
                         IF ~e.set /\ s.ties = 0 THEN e.value ELSE rv)
    ELSE <<>>

\* the iterations of the evaluation that produced the current value; -1 is
\* the run value before ties was ever counted
LastScan == ScanTrace(rankingTable, data, ScanStart, -1)

\* C13: the tie counters describe only the current run of equal values:
\* whenever the scan reaches an A-entry whose value differs from the value of
\* the run in which ties was counted, ties = previousTies = 0.
C13_TieCountersReset ==
    Evaluated =>
        \A k \in 1..Len(LastScan) :
            (~LastScan[k].entry.set /\ LastScan[k].entry.value # LastScan[k].runValue)
                => (LastScan[k].scan.ties = 0 /\ LastScan[k].scan.previousTies = 0)

\* the number of entries of group `set` among the first index entries
EntriesBefore(table, index, set) ==
    Cardinality({j \in 1..index : table[j].set = set})

\* C14 as stated: the positional term (index - prev) is added to U1 when the
\* scan examines a B-entry, and it equals the number of A-entries before it.
C14_PositionalAtBEntries ==
    Evaluated =>
        \A k \in 1..Len(LastScan) :
            LastScan[k].entry.set =>
                /\ LastScan[k].next.U1x2
                     = LastScan[k].scan.U1x2
                       + 2 * (LastScan[k].scan.index - LastScan[k].scan.prev)
                /\ LastScan[k].scan.index - LastScan[k].scan.prev
                     = EntriesBefore(rankingTable, LastScan[k].scan.index, FALSE)

\* C14 amended: the positional term (index - prev) is added to U1 when the
\* scan examines an A-entry, and it equals the number of B-entries before it;
\* a B-entry leaves U1 unchanged. (With no tie counted before or at the
\* A-entry the positional term is all that is added.)
C14_PositionalAtAEntries ==
    Evaluated =>
        LET trace == LastScan
        IN \A k \in 1..Len(trace) :
              LET r == trace[k]
                  b == EntriesBefore(rankingTable, r.scan.index, TRUE)
              IN IF r.entry.set
                 THEN r.next.U1x2 = r.scan.U1x2
                 ELSE /\ r.scan.index - r.scan.prev = b
                      /\ (r.scan.ties = 0 /\ r.next.ties = 0)
                            => r.next.U1x2 = r.scan.U1x2 + 2 * b

\* the scan has passed a B-entry with a B-entry before it and then an untied
\* A-entry with two B-entries before it
C14_Witness ==
    /\ Evaluated
    /\ \E k \in 1..Len(LastScan) :
          /\ LastScan[k].entry.set
          /\ LastScan[k].scan.index - LastScan[k].scan.prev > 0
    /\ \E k \in 1..Len(LastScan) :
          /\ ~LastScan[k].entry.set
          /\ LastScan[k].scan.ties = 0 /\ LastScan[k].next.ties = 0
          /\ LastScan[k].next.U1x2 = LastScan[k].scan.U1x2 + 4

\* ---- the Mann-Whitney value depends on the window alone
\* the entries window i contributes: the n1 replicates of group A, then the n2
\* of group B, a replicate not in play counting as 0
WindowEntries(i) ==
    [k \in 1..(counts[1] + counts[2]) |->
        IF k <= counts[1]
        THEN [value |-> RankedValue(i, 0, k), set |-> FALSE]
        ELSE [value |-> RankedValue(i, 1, k - counts[1]), set |-> TRUE]]

Occurrences(table, e) == Cardinality({k \in DOMAIN table : table[k] = e})

\* C15: the emitted value is determined by the window's in-play flags and
\* values alone: after any sequence of pulls and seeks the ranking table holds
\* exactly the entries of the evaluated window, in ascending order, the scan
\* locals are those of a scan of that table started from zero, and the value
\* is the one computed from that U1.
C15_WindowDeterminesValue ==
    Evaluated =>
        /\ DOMAIN rankingTable = DOMAIN WindowEntries(wi.start)
        /\ \A k \in DOMAIN rankingTable :
              Occurrences(rankingTable, rankingTable[k])
                 = Occurrences(WindowEntries(wi.start), rankingTable[k])
        /\ \A k \in DOMAIN rankingTable :
              k > 1 => rankingTable[k - 1].value <= rankingTable[k].value
        /\ scan = ScanLoop(rankingTable, data, ScanStart)
        /\ wi.value = MWUValue(data, scan.U1x2)

\* a window with a replicate not in play has been evaluated after an earlier
\* evaluation left other values in the table
C15_Witness ==
    /\ Evaluated
    /\ \E k \in 1..(counts[1] + counts[2]) :
          /\ WindowEntries(wi.start)[k].value = 0
          /\ \E j \in 1..(counts[1] + counts[2]) : WindowEntries(wi.start)[j].value # 0
    /\ (Len(emitted) > 1 \/ seeked)

\* ---- the range of U1
\* C16: for every accepted (n1, n2), every window and every order of equal
\* values, the U1 the scan computes satisfies 0 <= U1 <= n1 * n2.
C16_U1InRange ==
    Evaluated => (0 <= scan.U1x2 /\ scan.U1x2 <= 2 * data.n1 * data.n2)

\* ---- divisors
\* C17: for every accepted T-test configuration and every window it emits,
\* every divisor of the statistic is non-zero: count1, count2,
\* var1 / count1 + var2 / count2, count1^2 * (count1 - 1) and
\* count2^2 * (count2 - 1).
C17_TTestDivisorsNonZero ==
    (mode = "TTest" /\ Visible) =>
        /\ TCount(0) # 0 /\ TCount(1) # 0
        /\ TVarOverCount(wi.start, 0, 1) # 0
        /\ TNuDivisor(0) # 0 /\ TNuDivisor(1) # 0

\* C18: for every accepted Mann-Whitney configuration the stored sigma_U is
\* strictly positive, so the p-value step never divides by zero.
C18_SigmaPositive ==
    MWUReady => data.sigmaSq_U > 0

\* ---- done is absorbing
\* what a pull from the current state can return: the iterator and the
\* synchronizer position the pop function leaves
PullOutcomes ==
    IF mode = "TTest"
    THEN {<<o.wi, o.mpos, o.emits>> : o \in TTestReductionPop(mpos, wi, Fuel)}
    ELSE {<<o.wi, o.mpos, o.emits>> :
             o \in MWUReductionPop(mpos, wi, rankingTable, data, scan, Fuel)}

\* C19: done is absorbing under pulls: once the reducer has reported done, a
\* further pull leaves done true and leaves start, value and the synchronizer
\* position unchanged, and emits nothing.
C19_DoneAbsorbing ==
    (phase = "ready" /\ pc = "idle" /\ wi.done) =>
        PullOutcomes = {<<wi, mpos, <<>> >>}

\* the reducer has reported done and a seek has put the synchronizer back on
\* a window that qualifies
C19_Witness ==
    /\ phase = "ready" /\ pc = "idle" /\ wi.done
    /\ mpos <= Len(wins) /\ Qualifies(mpos)

====
